---------------------------- MODULE Spec2Model ----------------------------
(***************************************************************************)
(* Tadau: a Google Analytics Measurement Protocol client.                  *)
(*                                                                         *)
(*   src/py/measurement_protocol.py      the current client (class Tadau:  *)
(*                                       __init__, send_events and the     *)
(*                                       send_*_event wrappers)            *)
(*   src/tadau/measurement_protocol.py   the legacy client (Tadau.process) *)
(*                                                                         *)
(* Python values are tagged records, a str is the sequence of its          *)
(* characters, a dict is a function from its keys to values.  The HTTP     *)
(* transport is the environment: every requests.post either returns or     *)
(* raises, and the attempt is recorded with the payload that was           *)
(* serialized for it.                                                      *)
(***************************************************************************)
EXTENDS Integers, Sequences, FiniteSets, TLC

VARIABLES
  debug,     \* the interpreter's __debug__ (False under python -O)
  ctor,      \* the latest call of the constructor of the py client
  tadau,     \* the py client instance (NoObject until one is constructed)
  uploader,  \* the legacy client instance
  events,    \* the list of event rows held by the host application
  op,        \* the latest entry point called on `events`
  posts,     \* the requests.post attempts of that call, in order
  raised     \* whether that call raised to its caller

vars == <<debug, ctor, tadau, uploader, events, op, posts, raised>>

---------------------------------------------------------------------------
(* Python values *)

None == [t |-> "none"]
PyBool(b) == [t |-> "bool", b |-> b]
PyInt(n) == [t |-> "int", n |-> n]
PyStr(s) == [t |-> "str", s |-> s]
PyDict(d) == [t |-> "dict", d |-> d]

EmptyDict == [k \in {} |-> None]

\* bool(v): the truth value Python's `if v`, `not v`, `v or w` test
Truthy(v) ==
  CASE v.t = "none" -> FALSE
    [] v.t = "bool" -> v.b
    [] v.t = "int" -> v.n # 0
    [] v.t = "str" -> v.s # <<>>
    [] v.t = "dict" -> DOMAIN v.d # {}

\* d.get(k) and d.get(k, default)
GetOr(d, k, default) == IF k \in DOMAIN d THEN d[k] ELSE default

Get(d, k) == GetOr(d, k, None)

UpperCase ==
  <<"A", "B", "C", "D", "E", "F", "G", "H", "I", "J", "K", "L", "M", "N",
    "O", "P", "Q", "R", "S", "T", "U", "V", "W", "X", "Y", "Z">>

LowerCase ==
  <<"a", "b", "c", "d", "e", "f", "g", "h", "i", "j", "k", "l", "m", "n",
    "o", "p", "q", "r", "s", "t", "u", "v", "w", "x", "y", "z">>

DigitChars == <<"0", "1", "2", "3", "4", "5", "6", "7", "8", "9">>

Range(f) == {f[i] : i \in DOMAIN f}

Whitespace == {" ", "\t", "\n", "\r"}

\* str.lower()
LowerChar(c) ==
  IF c \in Range(UpperCase)
    THEN LowerCase[CHOOSE i \in DOMAIN UpperCase : UpperCase[i] = c]
    ELSE c

Lower(s) == [i \in DOMAIN s |-> LowerChar(s[i])]

\* str.strip()
RECURSIVE LStrip(_)
LStrip(s) ==
  IF s # <<>> /\ Head(s) \in Whitespace THEN LStrip(Tail(s)) ELSE s

RECURSIVE RStrip(_)
RStrip(s) ==
  IF s # <<>> /\ s[Len(s)] \in Whitespace
    THEN RStrip(SubSeq(s, 1, Len(s) - 1))
    ELSE s

Strip(s) == RStrip(LStrip(s))

\* str(n) for an int
RECURSIVE NatStr(_)
NatStr(n) ==
  IF n < 10 THEN <<DigitChars[n + 1]>>
  ELSE NatStr(n \div 10) \o <<DigitChars[(n % 10) + 1]>>

IntStr(n) == IF n < 0 THEN <<"-">> \o NatStr(-n) ELSE NatStr(n)

\* f'{v}' : the string form of a value
Format(v) ==
  CASE v.t = "none" -> <<"N", "o", "n", "e">>
    [] v.t = "bool" ->
         IF v.b THEN <<"T", "r", "u", "e">> ELSE <<"F", "a", "l", "s", "e">>
    [] v.t = "int" -> IntStr(v.n)
    [] v.t = "str" -> v.s

---------------------------------------------------------------------------
(* src/py/measurement_protocol.py : module level *)

_GA_COLLECT_URL ==
  <<"h", "t", "t", "p", "s", ":", "/", "/", "w", "w", "w", ".", "g", "o",
    "o", "g", "l", "e", "-", "a", "n", "a", "l", "y", "t", "i", "c", "s",
    ".", "c", "o", "m", "/", "m", "p", "/", "c", "o", "l", "l", "e", "c",
    "t">>

_GA_REQUEST_KEYS == {"name", "client_id", "user_id"}

_GA_RESERVERD_KEYS ==
  {"api_secret", "measurement_id", "app_instance_id", "uuid",
   "timestamp_micros"}

\* the check with `value is not None` alone, the truth test of value left out
_is_valid_param_not_none(key, value, reserved_keys) ==
  key \notin reserved_keys /\ value # None

\* the value of the `and` chain: tested for its truth by the caller
_is_valid_param(key, value, reserved_keys) ==
  key \notin reserved_keys /\ value # None /\ Truthy(value)

\* the characters re.sub(r'[^a-zA-Z0-9-]', '', text) keeps
AlnumOrHyphen ==
  Range(LowerCase) \cup Range(UpperCase) \cup Range(DigitChars) \cup {"-"}

\* the substitution with the pattern r'[^a-zA-Z0-9_-]', which keeps "_"
RECURSIVE _format_keeping_underscore(_)
_format_keeping_underscore(text) ==
  IF text = <<>> THEN <<>>
  ELSE (IF Head(text) \in AlnumOrHyphen \cup {"_"}
          THEN <<Head(text)>> ELSE <<>>)
         \o _format_keeping_underscore(Tail(text))

\* the substitution with the pattern r'[^a-zA-Z0-9]', which removes "-"
RECURSIVE _format_removing_hyphen(_)
_format_removing_hyphen(text) ==
  IF text = <<>> THEN <<>>
  ELSE (IF Head(text) \in AlnumOrHyphen \ {"-"}
          THEN <<Head(text)>> ELSE <<>>)
         \o _format_removing_hyphen(Tail(text))

\* re.sub scans left to right and replaces every match by ''
RECURSIVE _format_to_alphanumeric(_)
_format_to_alphanumeric(text) ==
  IF text = <<>> THEN <<>>
  ELSE (IF Head(text) \in AlnumOrHyphen THEN <<Head(text)>> ELSE <<>>)
         \o _format_to_alphanumeric(Tail(text))

---------------------------------------------------------------------------
(* src/py/measurement_protocol.py : class Tadau, construction *)

NoObject == [cls |-> "none"]

\* Tadau._is_opt_in: opt_in.lower().strip() == 'true'; a value that is no
\* str has no lower() and the call raises AttributeError
_is_opt_in(opt_in) ==
  IF opt_in.t = "str"
    THEN [exc |-> "none",
          value |-> PyBool(Strip(Lower(opt_in.s)) = <<"t", "r", "u", "e">>)]
    ELSE [exc |-> "AttributeError", value |-> None]

\* Tadau._is_valid_instance
_is_valid_instance(self) ==
  IF ~Truthy(self.api_secret) \/ ~Truthy(self.measurement_id)
    THEN FALSE
    ELSE TRUE

\* f'{self._api_url}?api_secret={self.api_secret}&measurement_id={...}'
TargetUrl(api_url, api_secret, measurement_id) ==
  api_url
    \o <<"?", "a", "p", "i", "_", "s", "e", "c", "r", "e", "t", "=">>
    \o Format(api_secret)
    \o <<"&", "m", "e", "a", "s", "u", "r", "e", "m", "e", "n", "t", "_",
         "i", "d", "=">>
    \o Format(measurement_id)

\* Tadau._load_config_from_yaml_file: the mapping yaml.safe_load returns;
\* None when there is no file or it is no YAML (logged, nothing returned).
\* `loaded` is what the file system holds at config_file_location.
_load_config_from_yaml_file(config_file_location, loaded) == loaded

\* The attributes assigned by Tadau.__init__ (lines 122-143), given the
\* four values in force after the configuration file was looked at.
NewTadau(api_secret, measurement_id, opt_in, fixed_dimensions) ==
  [cls |-> "Tadau",
   _api_url |-> _GA_COLLECT_URL,
   _reserved_keys |-> _GA_RESERVERD_KEYS,
   _request_keys |-> _GA_REQUEST_KEYS,
   api_secret |-> api_secret,
   measurement_id |-> measurement_id,
   opt_in |-> opt_in,
   _target_url |-> TargetUrl(_GA_COLLECT_URL, api_secret, measurement_id),
   fixed_dimensions |->
     IF Truthy(fixed_dimensions) THEN fixed_dimensions.d ELSE EmptyDict]

\* The `if __debug__:` block of Tadau.__init__
ValidateInstance(dbg, self) ==
  IF dbg /\ ~Truthy(self.opt_in) THEN "AssertionError"
  ELSE IF dbg /\ ~_is_valid_instance(self) THEN "AssertionError"
  ELSE "none"

\* Tadau.__init__(api_secret=, measurement_id=, opt_in=, fixed_dimensions=,
\* config_file_location=) under an interpreter whose __debug__ is dbg:
\* [exc, self], self = NoObject when the constructor raised.
Tadau_init(dbg, a) ==
  LET config ==
        IF Truthy(a.config_file_location)
          THEN _load_config_from_yaml_file(a.config_file_location, a.loaded)
          ELSE None
      fromFile == Truthy(a.config_file_location) /\ Truthy(config)
      parsed ==
        IF fromFile THEN _is_opt_in(GetOr(config.d, "opt_in",
                                          PyStr(<<"f", "a", "l", "s", "e">>)))
        ELSE [exc |-> "none", value |-> a.opt_in]
      self ==
        IF fromFile
          THEN NewTadau(Get(config.d, "api_secret"),
                        Get(config.d, "measurement_id"),
                        parsed.value,
                        Get(config.d, "fixed_dimensions"))
          ELSE NewTadau(a.api_secret, a.measurement_id, a.opt_in,
                        a.fixed_dimensions)
  IN  IF parsed.exc # "none" THEN [exc |-> parsed.exc, self |-> NoObject]
      ELSE IF ValidateInstance(dbg, self) # "none"
        THEN [exc |-> ValidateInstance(dbg, self), self |-> NoObject]
      ELSE [exc |-> "none", self |-> self]

---------------------------------------------------------------------------
(* src/py/measurement_protocol.py : Tadau.send_events *)

\* One requests.post(url=, data=json.dumps(payload)) attempt, made for the
\* row at index `row` of the list.  `data` is the payload as it stands when
\* it is serialized; the transport raises or not.
Post(row, url, payload, fails) ==
  [row |-> row, url |-> url, data |-> payload, raised |-> fails]

\* the overlay with only self._reserved_keys held back, the request keys
\* (name, client_id, user_id) let through
OverlayRequestKeysLetThrough(self, params, row) ==
  LET valid == {k \in DOMAIN row :
                  _is_valid_param(k, row[k], self._reserved_keys)}
  IN  [k \in DOMAIN params \cup valid |->
         IF k \in valid THEN row[k] ELSE params[k]]

\* `for k, v in row.items(): if _is_valid_param(...): params[k] = v` on the
\* dict `params`
Overlay(self, params, row) ==
  LET event_reserved_keys == self._reserved_keys \cup self._request_keys
      valid == {k \in DOMAIN row :
                  _is_valid_param(k, row[k], event_reserved_keys)}
  IN  [k \in DOMAIN params \cup valid |->
         IF k \in valid THEN row[k] ELSE params[k]]

\* `params = self.fixed_dimensions` (line 247) binds params to the reporter's
\* own dict, no copy is made: after the loop has stored into params,
\* self.fixed_dimensions is that same dict.
FixedDimensionsAfter(fixed_dimensions, params) == params

\* the payload with `if user_id is not None:` in place of `if user_id:`
PayloadUserIdNotNone(client_id, name, params, user_id) ==
  LET base == [non_personalized_ads |-> TRUE,
               client_id |-> Format(client_id),
               events |-> <<[name |-> _format_to_alphanumeric(name.s),
                             params |-> params]>>]
  IN  IF user_id # None
        THEN [non_personalized_ads |-> base.non_personalized_ads,
              client_id |-> base.client_id,
              events |-> base.events,
              user_id |-> Format(user_id)]
        ELSE base

\* The payload of lines 239-265 for a row whose name is a str
Payload(client_id, name, params, user_id) ==
  LET base == [non_personalized_ads |-> TRUE,
               client_id |-> Format(client_id),
               events |-> <<[name |-> _format_to_alphanumeric(name.s),
                             params |-> params]>>]
  IN  IF Truthy(user_id)
        THEN [non_personalized_ads |-> base.non_personalized_ads,
              client_id |-> base.client_id,
              events |-> base.events,
              user_id |-> Format(user_id)]
        ELSE base

\* The body of the try block for the row at index i (lines 231-275), run with
\* the reporter's fixed_dimensions being fd: the exception it ends with, the
\* fixed_dimensions it leaves and the POST attempt it made.  e.uuid is the
\* value of str(uuid.uuid4()), e.fails whether requests.post raises.
RowBody(self, fd, i, row, e) ==
  IF row.t # "dict"
    THEN [exc |-> "AttributeError", fd |-> fd, posts |-> <<>>]
  ELSE IF ~Truthy(Get(row.d, "name"))
    THEN [exc |-> "none", fd |-> fd, posts |-> <<>>]
  ELSE
    LET client_id == IF Truthy(Get(row.d, "client_id"))
                       THEN Get(row.d, "client_id")
                       ELSE PyStr(e.uuid)
        params == Overlay(self, fd, row.d)
        name == row.d["name"]
        user_id == Get(row.d, "user_id")
    IN  IF name.t # "str"
          THEN [exc |-> "TypeError",
                fd |-> FixedDimensionsAfter(fd, params),
                posts |-> <<>>]
          ELSE [exc |-> IF e.fails THEN "ConnectionError" ELSE "none",
                fd |-> FixedDimensionsAfter(fd, params),
                posts |-> <<Post(i, self._target_url,
                                 Payload(client_id, name, params, user_id),
                                 e.fails)>>]

\* a handler that names one exception type: `except TypeError:`
HandlesTypeErrorOnly(exc) == exc = "TypeError"

\* `except Exception:` of send_events: every exception the row body can end
\* with is an Exception, logged and not raised again
Handles(exc) == TRUE

\* The for loop of send_events from row i on: [exc, fd, posts]
RECURSIVE SendLoop(_, _, _, _, _, _)
SendLoop(self, rows, env, i, fd, sent) ==
  IF i > Len(rows) THEN [exc |-> "none", fd |-> fd, posts |-> sent]
  ELSE
    LET r == RowBody(self, fd, i, rows[i], env[i])
    IN  IF r.exc # "none" /\ ~Handles(r.exc)
          THEN [exc |-> r.exc, fd |-> r.fd, posts |-> sent \o r.posts]
          ELSE SendLoop(self, rows, env, i + 1, r.fd, sent \o r.posts)

\* send_events without its first guard, `if not self.opt_in: return`
send_events_without_opt_in_guard(self, rows, env) ==
  IF ~_is_valid_instance(self)
    THEN [exc |-> "none", self |-> self, posts |-> <<>>]
  ELSE IF rows = <<>>
    THEN [exc |-> "none", self |-> self, posts |-> <<>>]
  ELSE
    LET r == SendLoop(self, rows, env, 1, self.fixed_dimensions, <<>>)
    IN  [exc |-> r.exc,
         self |-> [self EXCEPT !.fixed_dimensions = r.fd],
         posts |-> r.posts]

\* Tadau.send_events(events): [exc, self, posts]
send_events(self, rows, env) ==
  IF ~Truthy(self.opt_in) THEN [exc |-> "none", self |-> self, posts |-> <<>>]
  ELSE IF ~_is_valid_instance(self)
    THEN [exc |-> "none", self |-> self, posts |-> <<>>]
  ELSE IF rows = <<>>
    THEN [exc |-> "none", self |-> self, posts |-> <<>>]
  ELSE
    LET r == SendLoop(self, rows, env, 1, self.fixed_dimensions, <<>>)
    IN  [exc |-> r.exc,
         self |-> [self EXCEPT !.fixed_dimensions = r.fd],
         posts |-> r.posts]

---------------------------------------------------------------------------
(* src/py/measurement_protocol.py : the send_*_event wrappers *)

AdsEventName == <<"a", "d", "s", "-", "e", "v", "e", "n", "t">>

CustomEventName ==
  <<"c", "u", "s", "t", "o", "m", "-", "e", "v", "e", "n", "t">>

ErrorEventName == <<"e", "r", "r", "o", "r", "-", "e", "v", "e", "n", "t">>

\* the single-row list send_ads_event passes to send_events
AdsEventRow(event_action, event_context, ads_platform, ads_platform_id, ads_resource, ads_resource_id) ==
  LET value(k) ==
        CASE k = "name" -> PyStr(AdsEventName)
          [] k = "event_is_impact_action" -> PyBool(TRUE)
          [] k = "event_action" -> event_action
          [] k = "event_context" -> event_context
          [] k = "ads_platform" -> ads_platform
          [] k = "ads_platform_id" -> ads_platform_id
          [] k = "ads_resource" -> ads_resource
          [] k = "ads_resource_id" -> ads_resource_id
  IN  PyDict([k \in {"name", "event_is_impact_action", "event_action",
              "event_context", "ads_platform", "ads_platform_id",
              "ads_resource", "ads_resource_id"} |-> value(k)])

\* the single-row list send_custom_event passes to send_events
CustomEventRow(event_action, event_is_impact_action, event_context) ==
  LET value(k) ==
        CASE k = "name" -> PyStr(CustomEventName)
          [] k = "event_action" -> event_action
          [] k = "event_is_impact_action" -> event_is_impact_action
          [] k = "event_context" -> event_context
  IN  PyDict([k \in {"name", "event_action", "event_is_impact_action",
              "event_context"} |-> value(k)])

\* the single-row list send_error_event passes to send_events
ErrorEventRow(error_message, error_code, error_location, error_location_id) ==
  LET value(k) ==
        CASE k = "name" -> PyStr(ErrorEventName)
          [] k = "error_message" -> error_message
          [] k = "error_code" -> error_code
          [] k = "error_location" -> error_location
          [] k = "error_location_id" -> error_location_id
  IN  PyDict([k \in {"name", "error_message", "error_code", "error_location",
              "error_location_id"} |-> value(k)])

---------------------------------------------------------------------------
(* src/tadau/measurement_protocol.py : the legacy client *)

LegacyReservedKeys ==
  {"app_instance_id", "client_id", "uuid", "user_id", "timestamp_micros"}

DefaultApiSecret ==
  <<"s", "h", "y", "N", "6", "a", "c", "9", "R", "u", "y", "x", "d", "g",
    "L", "Q", "Z", "R", "I", "v", "y", "g">>

DefaultMeasurementId ==
  <<"G", "-", "S", "W", "Y", "K", "2", "B", "S", "4", "1", "5">>

\* Tadau.__init__(params) of the legacy client
LegacyTadau(params) ==
  [cls |-> "LegacyTadau",
   api_url |-> _GA_COLLECT_URL,
   reserved_keys |-> LegacyReservedKeys,
   api_secret |-> IF Truthy(Get(params, "api_secret"))
                    THEN Get(params, "api_secret")
                    ELSE PyStr(DefaultApiSecret),
   measurement_id |-> IF Truthy(Get(params, "measurement_id"))
                        THEN Get(params, "measurement_id")
                        ELSE PyStr(DefaultMeasurementId)]

\* Tadau._validate_param
_validate_param(key, value, reserved_keys) ==
  key \notin reserved_keys /\ value # None /\ value # PyStr(<<>>)

\* Tadau._filter_alphanumeric_only: the same re.sub as the py client's
RECURSIVE _filter_alphanumeric_only(_)
_filter_alphanumeric_only(text) ==
  IF text = <<>> THEN <<>>
  ELSE (IF Head(text) \in AlnumOrHyphen THEN <<Head(text)>> ELSE <<>>)
         \o _filter_alphanumeric_only(Tail(text))

\* The body of the for loop of process for the row at index i (lines 42-69):
\* [exc, posts]
ProcessRow(self, i, row, e) ==
  IF row.t # "dict" THEN [exc |-> "AttributeError", posts |-> <<>>]
  ELSE
    LET client_id == Get(row.d, "client_id")
        user_id == Get(row.d, "user_id")
        event_reserved_keys == self.reserved_keys \cup {"name"}
        valid == {k \in DOMAIN row.d :
                    _validate_param(k, row.d[k], event_reserved_keys)}
        params == [k \in valid |-> row.d[k]]
        base == [non_personalized_ads |-> TRUE,
                 client_id |-> Format(client_id),
                 events |-> <<[name |->
                                 _filter_alphanumeric_only(row.d["name"].s),
                               params |-> params]>>]
        payload ==
          IF Truthy(user_id)
            THEN [non_personalized_ads |-> base.non_personalized_ads,
                  client_id |-> base.client_id,
                  events |-> base.events,
                  user_id |-> Format(user_id)]
            ELSE base
    IN  IF ~Truthy(client_id) THEN [exc |-> "none", posts |-> <<>>]
        ELSE IF "name" \notin DOMAIN row.d
          THEN [exc |-> "KeyError", posts |-> <<>>]
        ELSE IF row.d["name"].t # "str"
          THEN [exc |-> "TypeError", posts |-> <<>>]
        ELSE [exc |-> IF e.fails THEN "ConnectionError" ELSE "none",
              posts |-> <<Post(i, TargetUrl(self.api_url, self.api_secret,
                                            self.measurement_id),
                               payload, e.fails)>>]

\* The for loop of process from row i on.  The try statement encloses the
\* whole loop: the first exception of a row leaves the loop.
RECURSIVE ProcessLoop(_, _, _, _, _)
ProcessLoop(self, rows, env, i, sent) ==
  IF i > Len(rows) THEN [exc |-> "none", posts |-> sent]
  ELSE
    LET r == ProcessRow(self, i, rows[i], env[i])
    IN  IF r.exc # "none"
          THEN [exc |-> r.exc, posts |-> sent \o r.posts]
          ELSE ProcessLoop(self, rows, env, i + 1, sent \o r.posts)

\* the bare `except: pass` of process
LegacyHandles(exc) == TRUE

\* Tadau.process(events) of the legacy client: [exc, posts]
process(self, rows, env) ==
  LET r == ProcessLoop(self, rows, env, 1, <<>>)
  IN  [exc |-> IF r.exc # "none" /\ ~LegacyHandles(r.exc)
                 THEN r.exc ELSE "none",
       posts |-> r.posts]

---------------------------------------------------------------------------
(* Bounds and input sets *)

\* the longest list of event rows the host application assembles
MaxBatch == 2

\* the longest event name of the name-sanitization runs
MaxNameLen == 3

Absent == [t |-> "absent"]

\* the dict with the keys of f whose value is given
MkDict(f) == [k \in {j \in DOMAIN f : f[j] # Absent} |-> f[k]]

S_1232 == PyStr(<<"1", "2", "3", "2">>)
S_G1 == PyStr(<<"G", "-", "1">>)
S_123 == PyStr(<<"1", "2", "3">>)
S_11 == PyStr(<<"1", "1">>)
S_42 == PyStr(<<"4", "2">>)
S_X == PyStr(<<"X">>)
S_Y == PyStr(<<"Y">>)
S_r == PyStr(<<"r">>)
S_empty == PyStr(<<>>)
S_event1 == PyStr(<<"e", "v", " ", "1">>)
S_true == PyStr(<<"t", "r", "u", "e">>)
S_True_padded == PyStr(<<" ", "T", "r", "u", "e", " ">>)
S_false == PyStr(<<"f", "a", "l", "s", "e">>)
S_path == PyStr(<<"c", ".", "y", "a", "m", "l">>)

\* the value of str(uuid.uuid4())
Uuids == {<<"u", "u", "i", "d", "4">>}

\* what one row's pass through the loop draws from its environment
Envs == [uuid : Uuids, fails : BOOLEAN]

\* a row with a name and a client_id, and one more field k
RowWith(name, client_id, k, v) ==
  PyDict(MkDict([j \in {"name", "client_id", k} |->
                   IF j = k THEN v
                   ELSE IF j = "name" THEN name ELSE client_id]))

BaseRow == RowWith(S_event1, S_123, "name", S_event1)

\* rows that differ in name and client_id
NameRows ==
  {RowWith(n, S_123, "name", n) : n \in {Absent, S_empty, S_event1, PyInt(7)}}
  \cup {RowWith(S_event1, Absent, "name", S_event1)}

\* rows that differ in user_id
UserRows ==
  {RowWith(S_event1, S_123, "user_id", u) :
     u \in {S_empty, S_11, PyInt(7), PyInt(0)}}

\* rows that carry one custom parameter
ParamRows ==
  {RowWith(S_event1, S_123, "deploy_id", S_Y),
   RowWith(S_event1, S_123, "value", S_42)}

\* a row that carries every reserved key
ReservedRow ==
  PyDict([k \in _GA_RESERVERD_KEYS \cup _GA_REQUEST_KEYS |->
            IF k = "name" THEN S_event1 ELSE S_r])

SendRows == NameRows \cup UserRows \cup ParamRows \cup {ReservedRow}

\* constructor arguments
CtorArgs(secrets, ids, optins, dims, files) ==
  [api_secret : secrets, measurement_id : ids, opt_in : optins,
   fixed_dimensions : dims, config_file_location : {None},
   loaded : {None}]
  \cup
  [api_secret : secrets, measurement_id : ids, opt_in : optins,
   fixed_dimensions : dims, config_file_location : {S_path},
   loaded : files]

DeployX == PyDict([k \in {"deploy_id"} |-> S_X])

\* fixed dimensions that use reserved keys
DeployXReserved ==
  PyDict([k \in {"deploy_id", "user_id", "api_secret"} |->
            IF k = "deploy_id" THEN S_X ELSE S_r])

\* the reporters of the send_events runs: opted in, with credentials
SendCtorArgs ==
  CtorArgs({S_1232}, {S_G1}, {PyBool(TRUE)},
           {None, DeployX, DeployXReserved}, {})

Constructed(dbg, a) ==
  [called |-> TRUE, args |-> a, exc |-> Tadau_init(dbg, a).exc]

NoArgs ==
  [api_secret |-> None, measurement_id |-> None, opt_in |-> PyBool(FALSE),
   fixed_dimensions |-> None, config_file_location |-> None,
   loaded |-> None]

NotConstructed == [called |-> FALSE, args |-> NoArgs, exc |-> "none"]

\* the configuration documents yaml.safe_load may return
ConfigFiles ==
  {None, PyDict(EmptyDict)}
  \cup {PyDict(MkDict(f)) :
          f \in [api_secret : {Absent, S_1232},
                 measurement_id : {Absent, S_G1},
                 opt_in : {Absent, S_true, S_True_padded, S_false,
                           PyBool(TRUE), PyBool(FALSE)},
                 fixed_dimensions : {Absent, DeployX}]}

\* the constructor calls of the construction runs
AllCtorArgs ==
  CtorArgs({None, S_empty, S_1232}, {None, S_G1},
           {PyBool(TRUE), PyBool(FALSE), S_true, S_True_padded, S_false,
            None},
           {None, DeployX}, ConfigFiles)

\* the reporters of the wrapper runs: python -O builds the ones that are
\* not opted in or have no credentials
WrapCtorArgs ==
  CtorArgs({S_empty, S_1232}, {S_empty, S_G1}, {PyBool(TRUE), PyBool(FALSE)},
           {None, DeployX}, {})

WrapRows ==
  {BaseRow, RowWith(Absent, S_123, "name", Absent),
   RowWith(S_event1, S_123, "value", S_42)}

\* rows whose custom parameter has a value of every kind _is_valid_param
\* tells apart: None, '', 0, False, a non-empty string, a non-zero number;
\* and a row with an empty value under the key of a fixed dimension
ValueRows ==
  {RowWith(S_event1, S_123, "value", v) :
     v \in {None, S_empty, PyInt(0), PyBool(FALSE), S_42, PyInt(7)}}
  \cup {RowWith(S_event1, S_123, "deploy_id", S_empty)}

\* the reporters of the parameter runs: opted in, with credentials
ValueCtorArgs ==
  CtorArgs({S_1232}, {S_G1}, {PyBool(TRUE)}, {None, DeployX}, {})

S_act == PyStr(<<"a", "c", "t">>)
S_ctx == PyStr(<<"c", "t", "x">>)
S_GAds == PyStr(<<"G", "A", "d", "s">>)
S_404 == PyStr(<<"4", "0", "4">>)
S_loc == PyStr(<<"l", "o", "c">>)
S_msg == PyStr(<<"m", "s", "g">>)

\* rows of the legacy runs
LegacyRows ==
  {RowWith(n, c, "name", n) :
     n \in {Absent, S_event1, PyInt(7)}, c \in {Absent, S_empty, S_123}}
  \cup {RowWith(S_event1, S_123, "user_id", S_11),
        RowWith(S_event1, S_123, "value", S_empty),
        RowWith(S_event1, S_123, "value", PyInt(0))}

LegacyParams ==
  {EmptyDict,
   [k \in {"api_secret", "measurement_id"} |->
      IF k = "api_secret" THEN S_1232 ELSE S_G1]}

\* the names of the name-sanitization runs: every string of at most
\* MaxNameLen of these characters
NameChars == {"a", "Z", "1", "-", " ", "_"}

Names == UNION {[1..n -> NameChars] : n \in 0..MaxNameLen}

---------------------------------------------------------------------------
(* Actions *)

\* tadau = Tadau(...): one constructor call of the run
Construct(a) ==
  /\ ~ctor.called
  /\ ctor' = Constructed(debug, a)
  /\ tadau' = Tadau_init(debug, a).self
  /\ UNCHANGED <<debug, uploader, events, op, posts, raised>>

\* the host application puts a row on its list; a list that was already
\* passed to an entry point is replaced by a new one
AddEvent(row) ==
  /\ op # "none" \/ Len(events) < MaxBatch
  /\ events' = IF op # "none" THEN <<row>> ELSE Append(events, row)
  /\ op' = "none"
  /\ posts' = <<>>
  /\ raised' = FALSE
  /\ UNCHANGED <<debug, ctor, tadau, uploader>>

\* the result of a call of an entry point of the py client on `rows`
Called(name, rows, r) ==
  /\ events' = rows
  /\ op' = name
  /\ tadau' = r.self
  /\ posts' = r.posts
  /\ raised' = (r.exc # "none")
  /\ UNCHANGED <<debug, ctor, uploader>>

\* tadau.send_events(events), on a list not yet passed to an entry point (the
\* host application assembles a new list for every call)
SendEvents ==
  /\ tadau # NoObject
  /\ op = "none"
  /\ \E env \in [1..Len(events) -> Envs] :
       Called("send_events", events, send_events(tadau, events, env))

\* tadau.send_ads_event(...)
SendAdsEvent(event_action, event_context, ads_platform, ads_platform_id, ads_resource, ads_resource_id) ==
  /\ tadau # NoObject
  /\ LET rows == <<AdsEventRow(event_action, event_context, ads_platform,
                               ads_platform_id, ads_resource,
                               ads_resource_id)>>
     IN  \E env \in [1..1 -> Envs] :
           Called("send_ads_event", rows, send_events(tadau, rows, env))

\* tadau.send_custom_event(...)
SendCustomEvent(event_action, event_is_impact_action, event_context) ==
  /\ tadau # NoObject
  /\ LET rows == <<CustomEventRow(event_action, event_is_impact_action,
                                  event_context)>>
     IN  \E env \in [1..1 -> Envs] :
           Called("send_custom_event", rows, send_events(tadau, rows, env))

\* tadau.send_error_event(...)
SendErrorEvent(error_message, error_code, error_location, error_location_id) ==
  /\ tadau # NoObject
  /\ LET rows == <<ErrorEventRow(error_message, error_code, error_location,
                                 error_location_id)>>
     IN  \E env \in [1..1 -> Envs] :
           Called("send_error_event", rows, send_events(tadau, rows, env))

\* uploader.process(events) of the legacy client, on a list not yet passed
\* to an entry point
Process ==
  /\ op = "none"
  /\ \E env \in [1..Len(events) -> Envs] :
       LET r == process(uploader, events, env)
       IN  /\ op' = "process"
           /\ posts' = r.posts
           /\ raised' = (r.exc # "none")
  /\ UNCHANGED <<debug, ctor, tadau, uploader, events>>

---------------------------------------------------------------------------
(* Specifications *)

\* send_events on an opted-in reporter
Init ==
  /\ debug = TRUE
  /\ \E a \in SendCtorArgs :
       /\ ctor = Constructed(debug, a)
       /\ tadau = Tadau_init(debug, a).self
  /\ tadau # NoObject
  /\ uploader = LegacyTadau(EmptyDict)
  /\ events = <<>>
  /\ op = "none"
  /\ posts = <<>>
  /\ raised = FALSE

Next ==
  \/ \E row \in SendRows : AddEvent(row)
  \/ SendEvents

Spec == Init /\ [][Next]_vars

\* construction: one constructor call, then send_events
InitCtor ==
  /\ debug \in BOOLEAN
  /\ ctor = NotConstructed
  /\ tadau = NoObject
  /\ uploader = LegacyTadau(EmptyDict)
  /\ events = <<>>
  /\ op = "none"
  /\ posts = <<>>
  /\ raised = FALSE

NextCtor ==
  \/ \E a \in AllCtorArgs : Construct(a)
  \/ ctor.called /\ AddEvent(BaseRow)
  \/ SendEvents

SpecCtor == InitCtor /\ [][NextCtor]_vars

\* the wrappers and send_events, on reporters opted in or not
InitWrap ==
  /\ debug \in BOOLEAN
  /\ \E a \in WrapCtorArgs :
       /\ ctor = Constructed(debug, a)
       /\ tadau = Tadau_init(debug, a).self
  /\ tadau # NoObject
  /\ uploader = LegacyTadau(EmptyDict)
  /\ events = <<>>
  /\ op = "none"
  /\ posts = <<>>
  /\ raised = FALSE

NextWrap ==
  \/ \E row \in WrapRows : AddEvent(row)
  \/ SendEvents
  \/ \E event_context \in {S_empty, S_ctx} :
       SendAdsEvent(S_act, event_context, S_GAds, S_123, S_r, S_11)
  \/ \E event_is_impact_action \in {PyBool(TRUE), PyBool(FALSE)},
        event_context \in {S_empty, S_ctx} :
       SendCustomEvent(S_act, event_is_impact_action, event_context)
  \/ \E error_location \in {S_empty, S_loc} :
       SendErrorEvent(S_msg, S_404, error_location, S_11)

SpecWrap == InitWrap /\ [][NextWrap]_vars

\* the legacy client
InitLegacy ==
  /\ debug = TRUE
  /\ ctor = NotConstructed
  /\ tadau = NoObject
  /\ uploader \in {LegacyTadau(params) : params \in LegacyParams}
  /\ events = <<>>
  /\ op = "none"
  /\ posts = <<>>
  /\ raised = FALSE

NextLegacy ==
  \/ \E row \in LegacyRows : AddEvent(row)
  \/ Process

SpecLegacy == InitLegacy /\ [][NextLegacy]_vars

\* event names: one row of every name, through both clients
InitName ==
  /\ debug = TRUE
  /\ \E a \in SendCtorArgs :
       /\ a.fixed_dimensions = None
       /\ ctor = Constructed(debug, a)
       /\ tadau = Tadau_init(debug, a).self
  /\ uploader = LegacyTadau(EmptyDict)
  /\ events = <<>>
  /\ op = "none"
  /\ posts = <<>>
  /\ raised = FALSE

NextName ==
  \/ \E n \in Names, c \in {Absent, S_123} :
       /\ events = <<>>
       /\ AddEvent(RowWith(PyStr(n), c, "name", PyStr(n)))
  \/ SendEvents
  \/ Process

SpecName == InitName /\ [][NextName]_vars

\* parameter values: send_events and send_custom_event on an opted-in
\* reporter
InitValue ==
  /\ debug = TRUE
  /\ \E a \in ValueCtorArgs :
       /\ ctor = Constructed(debug, a)
       /\ tadau = Tadau_init(debug, a).self
  /\ uploader = LegacyTadau(EmptyDict)
  /\ events = <<>>
  /\ op = "none"
  /\ posts = <<>>
  /\ raised = FALSE

NextValue ==
  \/ \E row \in ValueRows : AddEvent(row)
  \/ SendEvents
  \/ \E event_is_impact_action \in {PyBool(TRUE), PyBool(FALSE)},
        event_context \in {S_empty, S_ctx} :
       SendCustomEvent(S_act, event_is_impact_action, event_context)

SpecValue == InitValue /\ [][NextValue]_vars

---------------------------------------------------------------------------
(* Claims *)

\* the indices of the rows of a list that satisfy Test, in list order
IndicesOf(rows, Test(_)) ==
  LET Wanted(i) == Test(rows[i])
  IN  SelectSeq([i \in 1..Len(rows) |-> i], Wanted)

\* the rows the attempts of the latest call were made for, in order
PostedRows == [i \in DOMAIN posts |-> posts[i].row]

\* a row whose name is a non-empty string
HasNonEmptyStringName(row) ==
  /\ row.t = "dict"
  /\ "name" \in DOMAIN row.d
  /\ row.d["name"].t = "str"
  /\ row.d["name"].s # <<>>

PyEntryPoints ==
  {"send_events", "send_ads_event", "send_custom_event", "send_error_event"}

\* C1: on an opted-in reporter with credentials, whichever POST attempts
\* raise, send_events returns without raising and attempts exactly one POST
\* per row whose name is a non-empty string, in list order, and none for
\* the other rows.
C1_OnePostPerNamedRow ==
  (op = "send_events" /\ Truthy(tadau.opt_in) /\ _is_valid_instance(tadau))
    => /\ ~raised
       /\ PostedRows = IndicesOf(events, HasNonEmptyStringName)

\* C1 witness: the POST of the first row raised and the second row, which
\* has no client_id, was attempted all the same.
C1_Witness ==
  /\ op = "send_events"
  /\ Len(events) = 2
  /\ Len(posts) = 2
  /\ posts[1].raised
  /\ "client_id" \notin DOMAIN events[2].d
  /\ ~raised

\* C2: a call of send_events or of a wrapper on a reporter whose opt_in is
\* false, or whose api_secret or measurement_id is empty, or with an empty
\* list, attempts no POST and returns without raising.
C2_NoPostWhenGated ==
  (/\ op \in PyEntryPoints
   /\ \/ ~Truthy(tadau.opt_in)
      \/ ~Truthy(tadau.api_secret)
      \/ ~Truthy(tadau.measurement_id)
      \/ events = <<>>)
    => posts = <<>> /\ ~raised

\* C2 witness: send_ads_event was called on a reporter with credentials that
\* is not opted in.
C2_Witness ==
  /\ op = "send_ads_event"
  /\ tadau.opt_in = PyBool(FALSE)
  /\ Truthy(tadau.api_secret)
  /\ Truthy(tadau.measurement_id)
  /\ posts = <<>>

\* what the constructor call was given, the configuration file taking
\* precedence when it was loaded
UsesFile(a) == Truthy(a.config_file_location) /\ Truthy(a.loaded)

SuppliedOptIn(a) ==
  IF UsesFile(a) THEN GetOr(a.loaded.d, "opt_in", S_false) ELSE a.opt_in

SuppliedApiSecret(a) ==
  IF UsesFile(a) THEN Get(a.loaded.d, "api_secret") ELSE a.api_secret

SuppliedMeasurementId(a) ==
  IF UsesFile(a) THEN Get(a.loaded.d, "measurement_id") ELSE a.measurement_id

\* boolean true, or a string that is "true" once trimmed and lower-cased
DenotesTrue(v) ==
  \/ v = PyBool(TRUE)
  \/ v.t = "str" /\ Strip(Lower(v.s)) = <<"t", "r", "u", "e">>

\* C3: with assertions enabled, construction fails when opt_in is true and
\* a credential is missing or empty, and when opt_in is false; every
\* reporter construction returns is opted in and has both credentials.
C3_ConstructedIsOptedIn ==
  (debug /\ ctor.called)
    => /\ (/\ DenotesTrue(SuppliedOptIn(ctor.args))
           /\ \/ ~Truthy(SuppliedApiSecret(ctor.args))
              \/ ~Truthy(SuppliedMeasurementId(ctor.args)))
            => ctor.exc # "none"
       /\ ~DenotesTrue(SuppliedOptIn(ctor.args)) => ctor.exc # "none"
       /\ tadau # NoObject
            => /\ DenotesTrue(tadau.opt_in)
               /\ Truthy(tadau.api_secret)
               /\ Truthy(tadau.measurement_id)

\* C4: on both construction paths, with assertions enabled and given
\* credentials, the reporter is
\* constructed and passes the opt-in guard of send_events exactly when the
\* supplied opt_in is boolean true or a string that is "true" once trimmed
\* and lower-cased; no other value yields a reporter that sends.
C4_OptInDecidedByValue ==
  (/\ debug
   /\ ctor.called
   /\ Truthy(SuppliedApiSecret(ctor.args))
   /\ Truthy(SuppliedMeasurementId(ctor.args)))
    => /\ (tadau # NoObject /\ Truthy(tadau.opt_in))
            <=> DenotesTrue(SuppliedOptIn(ctor.args))
       /\ (op = "send_events" /\ posts # <<>>)
            => DenotesTrue(SuppliedOptIn(ctor.args))

\* the params of the attempt at index i of the latest call
ParamsOfPost(i) == posts[i].data.events[1].params

\* the fixed_dimensions the reporter had when construction returned
ConstructionFixedDimensions ==
  Tadau_init(debug, ctor.args).self.fixed_dimensions

\* C5: a reporter constructed with fixed_dimensions holding deploy_id "X"
\* sends params.deploy_id = "X" in every payload.
C5_DeployIdAlwaysX ==
  (/\ op \in PyEntryPoints
   /\ Get(ConstructionFixedDimensions, "deploy_id") = S_X)
    => \A i \in DOMAIN posts :
         /\ "deploy_id" \in DOMAIN ParamsOfPost(i)
         /\ ParamsOfPost(i)["deploy_id"] = S_X

ReservedKeySet ==
  {"api_secret", "measurement_id", "app_instance_id", "uuid",
   "timestamp_micros", "name", "client_id", "user_id"}

\* C6 as stated: no payload has a reserved key in events[0].params, whatever
\* the fixed dimensions and the rows.
C6_NoReservedKeyInParams ==
  op \in PyEntryPoints
    => \A i \in DOMAIN posts : DOMAIN ParamsOfPost(i) \cap ReservedKeySet = {}

\* C6 amended: a reserved key is in events[0].params only when it is a key
\* of the fixed dimensions the reporter was constructed with, and then with
\* the value it was constructed with; no row puts a reserved key there.
C6_ReservedKeysOnlyFromFixedDimensions ==
  op \in PyEntryPoints
    => \A i \in DOMAIN posts :
         \A k \in DOMAIN ParamsOfPost(i) \cap ReservedKeySet :
           /\ k \in DOMAIN ConstructionFixedDimensions
           /\ ParamsOfPost(i)[k] = ConstructionFixedDimensions[k]

\* C6 witness: the row that carries every reserved key was dispatched by a
\* reporter whose fixed dimensions have none, and its params have none.
C6_Witness ==
  /\ op = "send_events"
  /\ DOMAIN ConstructionFixedDimensions = {"deploy_id"}
  /\ \E i \in DOMAIN posts :
       /\ events[posts[i].row] = ReservedRow
       /\ DOMAIN ParamsOfPost(i) \cap ReservedKeySet = {}

\* a value that counts as an empty user_id: None, '', 0, False
IsEmptyValue(v) == v \in {None, S_empty, PyInt(0), PyBool(FALSE)}

HasUserId(row) ==
  "user_id" \in DOMAIN row.d /\ ~IsEmptyValue(row.d["user_id"])

\* C8: the payload of a row has the key user_id exactly when the row has a
\* present, non-empty user_id, and its value is then the string form of the
\* row's user_id.
C8_UserIdOnlyFromOwnRow ==
  op = "send_events"
    => \A i \in DOMAIN posts :
         LET row == events[posts[i].row]
             payload == posts[i].data
         IN  /\ "user_id" \in DOMAIN payload <=> HasUserId(row)
             /\ HasUserId(row)
                  => payload.user_id =
                       IF row.d["user_id"].t = "int"
                         THEN IntStr(row.d["user_id"].n)
                         ELSE row.d["user_id"].s

\* C8 witness: the first row was sent with its user_id, the second row has
\* none and was sent without.
C8_Witness ==
  /\ op = "send_events"
  /\ Len(posts) = 2
  /\ "user_id" \in DOMAIN posts[1].data
  /\ "user_id" \notin DOMAIN events[2].d
  /\ "user_id" \notin DOMAIN posts[2].data

\* the characters of [A-Za-z0-9-]
KeptCharacters ==
  {"a", "b", "c", "d", "e", "f", "g", "h", "i", "j", "k", "l", "m", "n",
   "o", "p", "q", "r", "s", "t", "u", "v", "w", "x", "y", "z",
   "A", "B", "C", "D", "E", "F", "G", "H", "I", "J", "K", "L", "M", "N",
   "O", "P", "Q", "R", "S", "T", "U", "V", "W", "X", "Y", "Z",
   "0", "1", "2", "3", "4", "5", "6", "7", "8", "9", "-"}

\* out is text with the characters outside [A-Za-z0-9-] removed and the
\* others kept in their order: the j-th character of out is the j-th kept
\* character of text
IsSanitized(text, out) ==
  LET kept == {i \in DOMAIN text : text[i] \in KeptCharacters}
  IN  /\ Len(out) = Cardinality(kept)
      /\ \A i \in kept : out[Cardinality({j \in kept : j <= i})] = text[i]

\* C7: the event name of every payload dispatched by send_events or by the
\* legacy process is the row's name with every character outside
\* [A-Za-z0-9-] removed and the other characters kept in their order.
C7_NameSanitized ==
  op \in {"send_events", "process"}
    => \A i \in DOMAIN posts :
         IsSanitized(events[posts[i].row].d["name"].s,
                     posts[i].data.events[1].name)

\* C7 witness: a name with a blank and an underscore around a kept character
\* was dispatched by send_events.
C7_Witness ==
  /\ op = "send_events"
  /\ Len(posts) = 1
  /\ events[1].d["name"].s = <<" ", "a", "_">>
  /\ posts[1].data.events[1].name = <<"a">>

\* the event name of the only attempt of the latest call
OnlyPostName == posts[1].data.events[1].name

\* C9: on an opted-in reporter with credentials, every call of a wrapper
\* attempts exactly one POST, whose event name is "ads-event",
\* "custom-event" or "error-event"; the params of an ads event have
\* event_is_impact_action true.
C9_WrapperSendsOneNamedEvent ==
  (/\ op \in {"send_ads_event", "send_custom_event", "send_error_event"}
   /\ Truthy(tadau.opt_in)
   /\ _is_valid_instance(tadau))
    => /\ Len(posts) = 1
       /\ ~raised
       /\ op = "send_ads_event"
            => /\ OnlyPostName = <<"a", "d", "s", "-", "e", "v", "e", "n", "t">>
               /\ "event_is_impact_action" \in DOMAIN ParamsOfPost(1)
               /\ ParamsOfPost(1)["event_is_impact_action"] = PyBool(TRUE)
       /\ op = "send_custom_event"
            => OnlyPostName =
                 <<"c", "u", "s", "t", "o", "m", "-", "e", "v", "e", "n", "t">>
       /\ op = "send_error_event"
            => OnlyPostName =
                 <<"e", "r", "r", "o", "r", "-", "e", "v", "e", "n", "t">>

\* C9 witness: an ads event was sent by a reporter that had sent an error
\* event before (its error_message is still among the params).
C9_Witness ==
  /\ op = "send_ads_event"
  /\ Len(posts) = 1
  /\ "error_message" \in DOMAIN ParamsOfPost(1)
  /\ ParamsOfPost(1)["event_is_impact_action"] = PyBool(TRUE)

\* a row of the legacy client with both required fields
IsCompleteRow(row) ==
  /\ row.t = "dict"
  /\ Truthy(Get(row.d, "client_id"))
  /\ "name" \in DOMAIN row.d

\* C10: process never raises, and whenever every name given is a string and
\* no POST raises, it makes exactly one call for every row that has a truthy
\* client_id and a name, and none for the other rows.
C10_SiblingsOfIncompleteRowSent ==
  op = "process"
    => /\ ~raised
       /\ (/\ \A i \in DOMAIN events :
                "name" \in DOMAIN events[i].d
                  => events[i].d["name"].t = "str"
           /\ \A i \in DOMAIN posts : ~posts[i].raised)
            => PostedRows = IndicesOf(events, IsCompleteRow)

\* the keys a row carries with a value the overlay accepts
ValidKeysOf(row) ==
  {k \in DOMAIN row.d :
     /\ k \notin ReservedKeySet
     /\ row.d[k] # None
     /\ Truthy(row.d[k])}

\* C11: in every payload, a key of events[0].params that is not a key of the
\* fixed dimensions the reporter was constructed with is carried by the row
\* the payload was built for, with a valid value, and has that value: no
\* parameter of an earlier row or of an earlier call is in the payload of a
\* row that does not carry it.
C11_ParamsOnlyFromOwnRow ==
  op \in PyEntryPoints
    => \A i \in DOMAIN posts :
         \A k \in DOMAIN ParamsOfPost(i) \ DOMAIN ConstructionFixedDimensions :
           /\ k \in ValidKeysOf(events[posts[i].row])
           /\ ParamsOfPost(i)[k] = events[posts[i].row].d[k]

\* the reporter construction returned
ConstructionTadau == Tadau_init(debug, ctor.args).self

\* C12: after any sequence of calls of send_events and of the wrappers,
\* POSTs raising or not, the reporter's fixed_dimensions, api_secret,
\* measurement_id, opt_in and target URL are what they were when
\* construction returned.
C12_ConfigurationImmutable ==
  tadau # NoObject
    => /\ tadau.fixed_dimensions = ConstructionTadau.fixed_dimensions
       /\ tadau.api_secret = ConstructionTadau.api_secret
       /\ tadau.measurement_id = ConstructionTadau.measurement_id
       /\ tadau.opt_in = ConstructionTadau.opt_in
       /\ tadau._target_url = ConstructionTadau._target_url

\* the row without its fields, other than name, client_id and user_id, whose
\* value is None, '', 0 or False
WithoutFalsyFields(row) ==
  PyDict([k \in {j \in DOMAIN row.d :
                   j \in {"name", "client_id", "user_id"} \/ Truthy(row.d[j])}
            |-> row.d[k]])

\* C13: a list passed to send_events yields the attempts, payloads and
\* reporter it yields with those fields taken out of its rows; and on an
\* opted-in reporter with credentials, in every payload a field
\* of the row whose value is None, '', 0 or False is not the value of that key in events[0].params, every field of
\* the row whose key is not reserved and whose value is truthy is in
\* events[0].params with exactly its value, and a row with a non-empty
\* string name is dispatched whatever its other fields hold.
C13_FalsyFieldsNotOverlaid ==
  /\ op = "none"
       => \A env \in [1..Len(events) -> Envs] :
            send_events(tadau, events, env) =
              send_events(tadau,
                          [j \in DOMAIN events |->
                             WithoutFalsyFields(events[j])],
                          env)
  /\ (/\ op \in {"send_events", "send_custom_event"}
      /\ Truthy(tadau.opt_in)
      /\ _is_valid_instance(tadau))
    => /\ \A i \in DOMAIN posts :
            LET row == events[posts[i].row]
            IN  /\ \A k \in DOMAIN row.d :
                     ~Truthy(row.d[k])
                       => ~(/\ k \in DOMAIN ParamsOfPost(i)
                            /\ ParamsOfPost(i)[k] = row.d[k])
                /\ \A k \in DOMAIN row.d \ ReservedKeySet :
                     Truthy(row.d[k])
                       => /\ k \in DOMAIN ParamsOfPost(i)
                          /\ ParamsOfPost(i)[k] = row.d[k]
       /\ \A j \in DOMAIN events :
            HasNonEmptyStringName(events[j])
              => \E i \in DOMAIN posts : posts[i].row = j

\* C13 witness: send_custom_event with event_is_impact_action False and an
\* empty event_context was dispatched with event_action alone of the three.
C13_Witness ==
  /\ op = "send_custom_event"
  /\ Len(posts) = 1
  /\ events[1].d["event_is_impact_action"] = PyBool(FALSE)
  /\ events[1].d["event_context"] = S_empty
  /\ "event_is_impact_action" \notin DOMAIN ParamsOfPost(1)
  /\ "event_context" \notin DOMAIN ParamsOfPost(1)
  /\ "event_action" \in DOMAIN ParamsOfPost(1)

\* C14: every payload send_events dispatches has a non-empty event name,
\* whatever the name of the row, names made only of characters outside
\* [A-Za-z0-9-] included.
C14_DispatchedNameNonEmpty ==
  op = "send_events"
    => \A i \in DOMAIN posts : posts[i].data.events[1].name # <<>>

=============================================================================
